---- MODULE Spec2Model ----
(***************************************************************************)
(* The step-execution engine of the replay library: the resumable Runner   *)
(* of src/src/Runner.ts driving a RunnerExtension (the backend).           *)
(*                                                                         *)
(* Every `await` of Runner.run is a suspension point, so one action of the *)
(* model is one synchronous segment of run: from the resumption of an      *)
(* awaited backend call up to the invocation of the next one (or to the    *)
(* return of run).  The backend is the environment: every call it          *)
(* implements may complete or fail.                                        *)
(***************************************************************************)
EXTENDS Integers, Sequences, FiniteSets, TLC

\* ---------------------------------------------------------------- bounds
MaxSteps == 2
MaxCalls == 2

\* ------------------------------------------------------------ data model
\* A recorded user flow: step kinds of src/src/Schema.ts, opaque payloads to
\* the Runner.  The flows under test are its prefixes.
Recording == <<"setViewport", "navigate", "click", "change", "keyDown">>

\* The four optional lifecycle hooks of a RunnerExtension.
AllHooks == {"beforeAllSteps", "beforeEachStep", "afterEachStep", "afterAllSteps"}

\* Identifiers of the run() invocations made on the Runner, in call order.
CallIds == 1 .. MaxCalls

\* The flows a Runner may be bound to: UserFlow.steps, an ordered sequence.
Flows == {SubSeq(Recording, 1, n) : n \in 0 .. MaxSteps}

\* The optional argument of run(stepIdx?): << >> is "omitted", <<k>> is k.
StepIdxArgs == {<< >>} \cup {<<k>> : k \in -1 .. MaxSteps + 1}

NoError == [op |-> "none", idx |-> -1]

VARIABLES
  steps,     \* #flow.steps
  hooks,     \* the optional hooks the extension implements
  nextStep,  \* #nextStep
  ncalls,    \* number of run() invocations started so far
  pc,        \* per run() invocation: the await it is suspended at
  upTo,      \* per run() invocation: its stepIdx argument as given
  startAt,   \* per run() invocation: #nextStep when it was entered
  result,    \* per run() invocation: "pending", "true", "false", "rejected"
  err,       \* per run() invocation: the error it rejected with
  trace      \* every backend invocation and its completion, in order

\* The state of the Runner of src/src/Runner.ts and of its run() invocations.
runnerVars == <<steps, hooks, nextStep, ncalls, pc, upTo, startAt, result, err, trace>>

\* createRunner / importSteps (src/src/Runner.ts:89-145).
VARIABLES
  givenFlow,   \* the flow handed to createRunner
  files,       \* the file system: what readFile + JSON.parse give per target
  rpc,         \* where createRunner is: "idle", "scan", "awaitRead", "constructed", "rejected"
  rIdx,        \* importSteps: number of elements of givenFlow.steps consumed
  rSteps,      \* importSteps: its local `steps` array
  reads,       \* the targets handed to readFile, in order
  rErr,        \* << >>, or <<e>> when createRunner rejected with e
  runnerFlow,  \* << >>, or <<f>>: the flow the constructed Runner is bound to
  imported     \* importSteps has been called

resolverVars == <<givenFlow, files, rpc, rIdx, rSteps, reads, rErr, runnerFlow, imported>>

\* The Runner variant with an abort flag (src/unnamed/part_000:22-60).
VARIABLES
  aborted,        \* #aborted
  nextStepIndex,  \* the local nextStepIndex of the run() in progress
  abortLog        \* the abort() calls made: during which run(), at which await

abortVars == <<aborted, nextStepIndex, abortLog>>

\* A second Runner, driven by the same calls with an extension that
\* implements all four hooks (its record of nextStep, pc, result, err, trace).
VARIABLES ref

\* Whether some run() was entered while another was suspended at an await.
VARIABLES overlapped

\* runFiles (src/src/CLIUtils.ts:255-325).
VARIABLES
  fileList,      \* the `files` argument
  opts,          \* opts.log, and what opts.extension is
  fpc,           \* where runFiles is: the await it is suspended at
  index,         \* the position of the loop in fileList, from 1
  browser,       \* the variable `browser`: 0 for undefined, else the file it was launched for
  results,       \* the local array `results`
  statusErrors,  \* statusReport.errors
  errorString,   \* statusReport.#errorString, one element per error written to it
  thrown,        \* what was thrown inside the try block, per file position
  closes,        \* the browsers close() was called on, in order
  outcome        \* how runFiles settled

cliVars ==
  <<fileList, opts, fpc, index, browser, results, statusErrors, errorString, thrown, closes, outcome>>

vars == <<runnerVars, resolverVars, abortVars, ref, cliVars, overlapped>>

\* ------------------------------------------------------------- helpers
\* this.#flow.steps.length
Length == Len(steps)

\* this.#flow.steps[i], 0-based as in the source.
StepAt(i) == steps[i + 1]

\* `ext.hook?.(...)`: runStep is mandatory, the four hooks are optional.
Implements(op) == op = "runStep" \/ op \in hooks

\* What a backend operation is handed: this.#flow.steps[i] for the per-step
\* operations (undefined past the end of the array), the flow alone for
\* beforeAllSteps/afterAllSteps.
ArgOf(op, i) ==
  IF op \in {"beforeAllSteps", "afterAllSteps"} THEN "flow"
  ELSE IF i >= 0 /\ i < Length THEN StepAt(i) ELSE "undefined"

\* Invoking a backend operation: logged when the extension implements it.
Invoke(tr, c, op, i) ==
  IF Implements(op)
  THEN Append(tr, [call |-> c, op |-> op, idx |-> i, arg |-> ArgOf(op, i), ev |-> "call"])
  ELSE tr

\* The operation run() invocation c awaits: the last one it invoked.
Awaited(tr, c) ==
  IF tr[Len(tr)].call = c
  THEN Len(tr)
  ELSE CHOOSE k \in 1 .. Len(tr) :
         tr[k].call = c /\ \A j \in k + 1 .. Len(tr) : tr[j].call # c

\* Completion of the operation invocation c awaits: it resolves (ok) or
\* rejects.
Settle(tr, c, op, ok) ==
  IF Implements(op)
  THEN Append(tr, [tr[Awaited(tr, c)] EXCEPT !.ev = IF ok THEN "ok" ELSE "fail"])
  ELSE tr

\* Mutant of StepIdx: an omitted stepIdx is taken as 0.
StepIdx_DefaultZero(a) == IF a = << >> THEN 0 ELSE a[1]

\* if (stepIdx === undefined) stepIdx = this.#flow.steps.length
StepIdx(a) == IF a = << >> THEN Length ELSE a[1]

\* if (this.#nextStep === 0)
IsFirst(ns) == ns = 0

\* Mutant of LoopCond: the step at index stepIdx is run too.
LoopCond_Inclusive(ns, stepIdx) == ns <= stepIdx /\ ns < Length

\* Mutant of LoopCond: the test against the length of the flow is missing.
LoopCond_NoLengthCheck(ns, stepIdx) == ns < stepIdx

\* while (this.#nextStep < stepIdx && this.#nextStep < this.#flow.steps.length)
LoopCond(ns, stepIdx) == ns < stepIdx /\ ns < Length

\* Mutant of IsComplete: > for >=.
IsComplete_Strict(ns) == ns > Length

\* if (this.#nextStep >= this.#flow.steps.length)
IsComplete(ns) == ns >= Length

\* Mutant of Advance: the cursor moves on by two.
Advance_Twice(ns) == ns + 2

\* The cursor after `this.#nextStep++` (line 61).
Advance(ns) == ns + 1

\* Mutant of LoopHead: beforeEachStep is called without `?.`, so the call
\* throws when the extension has no such hook and run rejects.
LoopHead_RequiresBeforeEach(c, ns, stepIdx, tr) ==
  IF LoopCond(ns, stepIdx)
  THEN IF Implements("beforeEachStep")
       THEN /\ pc' = [pc EXCEPT ![c] = "awaitBeforeEach"]
            /\ trace' = Invoke(tr, c, "beforeEachStep", ns)
            /\ UNCHANGED result
       ELSE /\ pc' = [pc EXCEPT ![c] = "done"]
            /\ trace' = tr
            /\ result' = [result EXCEPT ![c] = "rejected"]
  ELSE IF IsComplete(ns)
  THEN /\ pc' = [pc EXCEPT ![c] = "awaitAfterAll"]
       /\ trace' = Invoke(tr, c, "afterAllSteps", -1)
       /\ UNCHANGED result
  ELSE /\ pc' = [pc EXCEPT ![c] = "done"]
       /\ trace' = tr
       /\ result' = [result EXCEPT ![c] = "false"]

\* The loop head and what follows it, run synchronously with cursor value ns
\* and log tr: either the next iteration starts (beforeEachStep is invoked),
\* or afterAllSteps is invoked, or run returns false.
LoopHead(c, ns, stepIdx, tr) ==
  IF LoopCond(ns, stepIdx)
  THEN /\ pc' = [pc EXCEPT ![c] = "awaitBeforeEach"]
       /\ trace' = Invoke(tr, c, "beforeEachStep", ns)
       /\ UNCHANGED result
  ELSE IF IsComplete(ns)
  THEN /\ pc' = [pc EXCEPT ![c] = "awaitAfterAll"]
       /\ trace' = Invoke(tr, c, "afterAllSteps", -1)
       /\ UNCHANGED result
  ELSE /\ pc' = [pc EXCEPT ![c] = "done"]
       /\ trace' = tr
       /\ result' = [result EXCEPT ![c] = "false"]

\* A rejected await propagates out of run: run has no try/catch.
Reject(c, tr) ==
  /\ pc' = [pc EXCEPT ![c] = "done"]
  /\ result' = [result EXCEPT ![c] = "rejected"]
  /\ err' = [err EXCEPT ![c] = [op |-> tr[Len(tr)].op, idx |-> tr[Len(tr)].idx]]
  /\ trace' = tr

\* ---------------------------------------------------------------- Init
\* createRunner has not been called: the Runner is constructed directly.
ResolverIdle ==
  /\ givenFlow = [title |-> "", steps |-> << >>]
  /\ files = << >>
  /\ rpc = "idle"
  /\ rIdx = 0
  /\ rSteps = << >>
  /\ reads = << >>
  /\ rErr = << >>
  /\ runnerFlow = << >>
  /\ imported = FALSE

\* #aborted: boolean = false
AbortIdle ==
  /\ aborted = FALSE
  /\ nextStepIndex = 0
  /\ abortLog = << >>

\* runFiles has not been called.
CliIdle ==
  /\ fileList = << >>
  /\ opts = [log |-> FALSE, extension |-> "none"]
  /\ fpc = "idle"
  /\ index = 0
  /\ browser = 0
  /\ results = << >>
  /\ statusErrors = << >>
  /\ errorString = << >>
  /\ thrown = << >>
  /\ closes = << >>
  /\ outcome = "pending"

\* A Runner right after construction, as a record.
NewRunner ==
  [nextStep |-> 0,
   pc |-> [c \in CallIds |-> "idle"],
   result |-> [c \in CallIds |-> "pending"],
   err |-> [c \in CallIds |-> NoError],
   trace |-> << >>]

Init ==
  /\ ResolverIdle
  /\ AbortIdle
  /\ CliIdle
  /\ overlapped = FALSE
  /\ ref = NewRunner
  /\ steps \in Flows
  /\ hooks \in SUBSET AllHooks
  /\ nextStep = 0
  /\ ncalls = 0
  /\ pc = [c \in CallIds |-> "idle"]
  /\ upTo = [c \in CallIds |-> << >>]
  /\ startAt = [c \in CallIds |-> 0]
  /\ result = [c \in CallIds |-> "pending"]
  /\ err = [c \in CallIds |-> NoError]
  /\ trace = << >>

\* ------------------------------------------------------------- actions
\* No run() invocation is in progress (run calls are made one after another).
Quiescent == \A c \in CallIds : pc[c] \in {"idle", "done"}

\* The body of run(stepIdx?) up to its first await: lines 38-44, and on
\* to the loop when the Runner has already started.
Enter(c, a) ==
  /\ c = ncalls + 1
  /\ ncalls' = c
  /\ upTo' = [upTo EXCEPT ![c] = a]
  /\ startAt' = [startAt EXCEPT ![c] = nextStep]
  /\ IF IsFirst(nextStep)
     THEN /\ pc' = [pc EXCEPT ![c] = "awaitBeforeAll"]
          /\ trace' = Invoke(trace, c, "beforeAllSteps", -1)
          /\ UNCHANGED result
     ELSE LoopHead(c, nextStep, StepIdx(a), trace)
  /\ UNCHANGED <<steps, hooks, nextStep, err>>

\* run(stepIdx?) is called when no other run() is in progress.
Run(c, a) == Quiescent /\ Enter(c, a)

\* `await beforeAllSteps?.(flow)` settles (line 43); on success the loop is
\* entered.  An omitted hook cannot reject.
BeforeAllSettles(c, ok) ==
  /\ pc[c] = "awaitBeforeAll"
  /\ ok \/ Implements("beforeAllSteps")
  /\ IF ok
     THEN /\ LoopHead(c, nextStep, StepIdx(upTo[c]), Settle(trace, c, "beforeAllSteps", TRUE))
          /\ UNCHANGED err
     ELSE Reject(c, Settle(trace, c, "beforeAllSteps", FALSE))
  /\ UNCHANGED <<steps, hooks, nextStep, ncalls, upTo, startAt>>

\* `await beforeEachStep?.(step, flow)` settles (lines 49-52); on success
\* runStep is invoked with steps[#nextStep] (lines 53-56).
BeforeEachSettles(c, ok) ==
  /\ pc[c] = "awaitBeforeEach"
  /\ ok \/ Implements("beforeEachStep")
  /\ IF ok
     THEN /\ pc' = [pc EXCEPT ![c] = "awaitRunStep"]
          /\ trace' = Invoke(Settle(trace, c, "beforeEachStep", TRUE), c, "runStep", nextStep)
          /\ UNCHANGED <<result, err>>
     ELSE Reject(c, Settle(trace, c, "beforeEachStep", FALSE))
  /\ UNCHANGED <<steps, hooks, nextStep, ncalls, upTo, startAt>>

\* Mutant of RunStepSettles: a rejection of runStep is swallowed and the
\* iteration goes on.
RunStepSettles_Swallow(c, ok) ==
  /\ pc[c] = "awaitRunStep"
  /\ pc' = [pc EXCEPT ![c] = "awaitAfterEach"]
  /\ trace' = Invoke(Settle(trace, c, "runStep", ok), c, "afterEachStep", nextStep)
  /\ UNCHANGED <<steps, hooks, nextStep, ncalls, upTo, startAt, result, err>>

\* `await runStep(step, flow)` settles (lines 53-56); on success
\* afterEachStep is invoked with steps[#nextStep] (lines 57-60).
RunStepSettles(c, ok) ==
  /\ pc[c] = "awaitRunStep"
  /\ IF ok
     THEN /\ pc' = [pc EXCEPT ![c] = "awaitAfterEach"]
          /\ trace' = Invoke(Settle(trace, c, "runStep", TRUE), c, "afterEachStep", nextStep)
          /\ UNCHANGED <<result, err>>
     ELSE Reject(c, Settle(trace, c, "runStep", FALSE))
  /\ UNCHANGED <<steps, hooks, nextStep, ncalls, upTo, startAt>>

\* Mutant of AfterEachSettles: the cursor is incremented before
\* afterEachStep is awaited, so it has moved on when the hook rejects.
AfterEachSettles_AdvanceFirst(c, ok) ==
  /\ pc[c] = "awaitAfterEach"
  /\ ok \/ Implements("afterEachStep")
  /\ nextStep' = Advance(nextStep)
  /\ IF ok
     THEN /\ LoopHead(c, Advance(nextStep), StepIdx(upTo[c]), Settle(trace, c, "afterEachStep", TRUE))
          /\ UNCHANGED err
     ELSE Reject(c, Settle(trace, c, "afterEachStep", FALSE))
  /\ UNCHANGED <<steps, hooks, ncalls, upTo, startAt>>

\* `await afterEachStep?.(step, flow)` settles (lines 57-60); on success the
\* cursor is incremented (line 61) and the loop condition is tested again.
AfterEachSettles(c, ok) ==
  /\ pc[c] = "awaitAfterEach"
  /\ ok \/ Implements("afterEachStep")
  /\ IF ok
     THEN /\ nextStep' = Advance(nextStep)
          /\ LoopHead(c, Advance(nextStep), StepIdx(upTo[c]), Settle(trace, c, "afterEachStep", TRUE))
          /\ UNCHANGED err
     ELSE /\ Reject(c, Settle(trace, c, "afterEachStep", FALSE))
          /\ UNCHANGED nextStep
  /\ UNCHANGED <<steps, hooks, ncalls, upTo, startAt>>

\* Mutant of AfterAllSettles: the promise of afterAllSteps never settles.
AfterAllSettles_Hangs(c, ok) ==
  /\ pc[c] = "awaitAfterAll"
  /\ UNCHANGED runnerVars

\* `await afterAllSteps?.(flow)` settles (line 64); on success run returns
\* true (line 65).
AfterAllSettles(c, ok) ==
  /\ pc[c] = "awaitAfterAll"
  /\ ok \/ Implements("afterAllSteps")
  /\ IF ok
     THEN /\ pc' = [pc EXCEPT ![c] = "done"]
          /\ result' = [result EXCEPT ![c] = "true"]
          /\ trace' = Settle(trace, c, "afterAllSteps", TRUE)
          /\ UNCHANGED err
     ELSE Reject(c, Settle(trace, c, "afterAllSteps", FALSE))
  /\ UNCHANGED <<steps, hooks, nextStep, ncalls, upTo, startAt>>

\* What the steps of the resumable Runner leave alone.
OtherThanRunner == <<resolverVars, abortVars, ref, cliVars, overlapped>>

Next ==
  \/ \E c \in CallIds, a \in StepIdxArgs : Run(c, a) /\ UNCHANGED OtherThanRunner
  \/ \E c \in CallIds, ok \in BOOLEAN : BeforeAllSettles(c, ok) /\ UNCHANGED OtherThanRunner
  \/ \E c \in CallIds, ok \in BOOLEAN : BeforeEachSettles(c, ok) /\ UNCHANGED OtherThanRunner
  \/ \E c \in CallIds, ok \in BOOLEAN : RunStepSettles(c, ok) /\ UNCHANGED OtherThanRunner
  \/ \E c \in CallIds, ok \in BOOLEAN : AfterEachSettles(c, ok) /\ UNCHANGED OtherThanRunner
  \/ \E c \in CallIds, ok \in BOOLEAN : AfterAllSettles(c, ok) /\ UNCHANGED OtherThanRunner

Spec == Init /\ [][Next]_vars

\* ------------------------------------------------ reading the log
\* The events of run() invocation c, in order.
Events(c) == SelectSeq(trace, LAMBDA e : e.call = c)

\* The invocations of backend operation op found in log tr, in order.
Invocations(tr, op) == SelectSeq(tr, LAMBDA e : e.op = op /\ e.ev = "call")

\* The invocations of the per-step operations found in log tr, in order.
StepInvocations(tr) ==
  SelectSeq(tr, LAMBDA e : e.ev = "call" /\ e.op \in {"beforeEachStep", "runStep", "afterEachStep"})

\* The step indices runStep was invoked on in log tr, in order.
RunStepIdxs(tr) ==
  LET ran == Invocations(tr, "runStep")
  IN [k \in 1 .. Len(ran) |-> ran[k].idx]

\* <<lo, lo+1, ..., hi-1>>
Range(lo, hi) == [k \in 1 .. (IF hi > lo THEN hi - lo ELSE 0) |-> lo + k - 1]

\* No backend call has failed so far.
NoFailure == \A k \in 1 .. Len(trace) : trace[k].ev # "fail"

\* A backend operation invoked by call c and completed, as the log shows it
\* when the extension implements it.
Completed(c, op, i, a) ==
  IF op = "runStep" \/ op \in hooks
  THEN << [call |-> c, op |-> op, idx |-> i, arg |-> a, ev |-> "call"],
          [call |-> c, op |-> op, idx |-> i, arg |-> a, ev |-> "ok"] >>
  ELSE << >>

\* One full iteration on step i: beforeEachStep, runStep, afterEachStep.
Iteration(c, i) ==
  Completed(c, "beforeEachStep", i, steps[i + 1])
    \o Completed(c, "runStep", i, steps[i + 1])
    \o Completed(c, "afterEachStep", i, steps[i + 1])

RECURSIVE Iterations(_, _, _)
Iterations(c, lo, hi) ==
  IF lo >= hi THEN << >> ELSE Iteration(c, lo) \o Iterations(c, lo + 1, hi)

\* The log holds one full successful iteration on step i as a contiguous
\* block within one call: the block around an invocation of runStep(i).
IterationDone(i) ==
  \E p \in 1 .. Len(trace) :
    /\ trace[p].op = "runStep"
    /\ trace[p].ev = "call"
    /\ trace[p].idx = i
    /\ LET it == Iteration(trace[p].call, i)
           b == Len(Completed(trace[p].call, "beforeEachStep", i, steps[i + 1]))
       IN /\ p > b
          /\ p - b - 1 + Len(it) <= Len(trace)
          /\ SubSeq(trace, p - b, p - b - 1 + Len(it)) = it

\* s is a prefix of t or t is a prefix of s.
Compatible(s, t) ==
  \A k \in 1 .. (IF Len(s) < Len(t) THEN Len(s) ELSE Len(t)) : s[k] = t[k]

Min(a, b) == IF a < b THEN a ELSE b
Max(a, b) == IF a > b THEN a ELSE b

\* ------------------------------------------------------------ claims

\* C1: a single run() with upTo omitted on a fresh Runner whose backend calls
\* never fail returns true, and its backend calls are exactly
\* beforeAllSteps, then for i = 0..N-1 beforeEachStep(steps[i]),
\* runStep(steps[i]), afterEachStep(steps[i]), then afterAllSteps (the hooks
\* the extension implements), each completed before the next is invoked.
C1_FreshRunRunsEveryStepInOrder ==
  (/\ ncalls >= 1
   /\ pc[1] = "done"
   /\ upTo[1] = << >>
   /\ \A k \in 1 .. Len(trace) : trace[k].call = 1 => trace[k].ev # "fail")
  => /\ result[1] = "true"
     /\ RunStepIdxs(Events(1)) = Range(0, Len(steps))
     /\ Events(1) = Completed(1, "beforeAllSteps", -1, "flow")
                       \o Iterations(1, 0, Len(steps))
                       \o Completed(1, "afterAllSteps", -1, "flow")

C1_Witness ==
  /\ pc[1] = "done"
  /\ upTo[1] = << >>
  /\ result[1] = "true"
  /\ Len(steps) = 2
  /\ hooks = AllHooks

\* C2: across any sequence of run(upTo) calls beforeAllSteps is invoked
\* exactly once in total, during the very first run call.  Stated for the
\* runs in which no backend call fails, where no retry is involved.
C2_BeforeAllStepsExactlyOnce ==
  NoFailure =>
    LET inv == Invocations(trace, "beforeAllSteps")
    IN /\ Len(inv) <= 1
       /\ \A k \in 1 .. Len(inv) : inv[k].call = 1
       /\ (ncalls >= 1 /\ "beforeAllSteps" \in hooks) => Len(inv) = 1

\* C3: across any sequence of run(upTo) calls afterAllSteps is invoked
\* exactly once in total, by the call in which the cursor first reaches
\* len(steps), and never by a call that leaves the cursor below len(steps).
\* Stated for the runs in which no backend call fails.
C3_AfterAllStepsExactlyOnce ==
  NoFailure =>
    LET inv == Invocations(trace, "afterAllSteps")
    IN /\ Len(inv) <= 1
       /\ \A k \in 1 .. Len(inv) : nextStep = Len(steps)
       /\ \A k \in 1 .. Len(inv) : Len(steps) > 0 => startAt[inv[k].call] < Len(steps)

\* The Runner was complete when call c was entered: the cursor was at
\* len(steps) and an earlier call had returned true.
CompleteBefore(c) ==
  /\ c \in 1 .. ncalls
  /\ startAt[c] = Len(steps)
  /\ \E d \in 1 .. c - 1 : result[d] = "true"

\* C4: once the Runner is complete every further run(upTo) returns true,
\* invokes no backend operation at all and leaves the cursor unchanged.
C4_RunAfterCompleteIsNoOp ==
  \A c \in CallIds :
    CompleteBefore(c) =>
      /\ Events(c) = << >>
      /\ pc[c] = "done" => result[c] = "true"
      /\ nextStep = Len(steps)

\* C5: with no backend failure, after any sequence of run(upTo) calls
\* runStep has been invoked exactly once on each index below the cursor, in
\* increasing order; and run(k) followed by run() invokes it on [0, k)
\* during the first call and on [k, N) during the second.
C5_EachStepRunsExactlyOnce ==
  NoFailure =>
    /\ Quiescent => RunStepIdxs(trace) = Range(0, nextStep)
    /\ LET ran == Invocations(trace, "runStep")
       IN \A k \in 1 .. Len(ran) : ran[k].arg = steps[k]
    /\ \A k \in 0 .. Len(steps) :
         (ncalls >= 2 /\ pc[2] = "done" /\ upTo[1] = <<k>> /\ upTo[2] = << >>)
         => /\ RunStepIdxs(Events(1)) = Range(0, k)
            /\ RunStepIdxs(Events(2)) = Range(k, Len(steps))

C5_Witness ==
  /\ NoFailure
  /\ pc[2] = "done"
  /\ upTo[1] = <<1>>
  /\ upTo[2] = << >>
  /\ Len(steps) = 2
  /\ nextStep = 2

\* Event k of the log is the failure of operation op on step index i.
FailsAt(k, op, i) ==
  /\ k \in 1 .. Len(trace)
  /\ trace[k].ev = "fail"
  /\ trace[k].op = op
  /\ trace[k].idx = i

\* Event k is the last event of its run() invocation.
LastOfCall(k) == \A j \in k + 1 .. Len(trace) : trace[j].call # trace[k].call

\* C6: if runStep fails on step index i, the run call fails with that error,
\* the cursor equals i afterwards, the call invokes nothing further (no
\* afterEachStep(i), no afterAllSteps, no step above i), and the first
\* runStep of the next run call is on step i again.
C6_RunStepFailureLeavesCursor ==
  \A k \in 1 .. Len(trace) :
    (trace[k].ev = "fail" /\ trace[k].op = "runStep") =>
      LET c == trace[k].call
          i == trace[k].idx
      IN /\ pc[c] = "done"
         /\ result[c] = "rejected"
         /\ err[c] = [op |-> "runStep", idx |-> i]
         /\ LastOfCall(k)
         /\ \A j \in 1 .. Len(trace) :
              trace[j].call = c =>
                /\ trace[j].idx <= i
                /\ ~(trace[j].op = "afterEachStep" /\ trace[j].idx = i)
                /\ trace[j].op # "afterAllSteps"
         /\ c = ncalls => nextStep = i
         /\ c < ncalls =>
              /\ startAt[c + 1] = i
              /\ Compatible(RunStepIdxs(Events(c + 1)), <<i>>)

C6_Witness ==
  /\ \E k \in 1 .. Len(trace) : FailsAt(k, "runStep", 1) /\ trace[k].call = 1
  /\ ncalls = 2
  /\ upTo[2] = << >>
  /\ Len(RunStepIdxs(Events(2))) >= 1

\* C7: the cursor moves past step i only after beforeEachStep(i), runStep(i)
\* and afterEachStep(i) completed successfully one after another in one
\* call; if one of the three fails the call fails with the cursor at i, and
\* a later run starts over with beforeEachStep(i), runStep(i); a failure of
\* beforeAllSteps leaves the cursor at 0 with no step operation invoked.
C7_NoPartialStep ==
  /\ \A i \in 0 .. nextStep - 1 : IterationDone(i)
  /\ \A k \in 1 .. Len(trace) :
       trace[k].ev = "fail" =>
         LET c == trace[k].call
             i == trace[k].idx
         IN /\ trace[k].op \in {"beforeEachStep", "runStep", "afterEachStep"} =>
                 /\ pc[c] = "done"
                 /\ result[c] = "rejected"
                 /\ err[c] = [op |-> trace[k].op, idx |-> i]
                 /\ LastOfCall(k)
                 /\ c = ncalls => nextStep = i
                 /\ c < ncalls =>
                      /\ startAt[c + 1] = i
                      /\ Compatible(StepInvocations(Events(c + 1)),
                                    StepInvocations(Iteration(c + 1, i)))
            /\ trace[k].op = "beforeAllSteps" =>
                 /\ result[c] = "rejected"
                 /\ LastOfCall(k)
                 /\ StepInvocations(Events(c)) = << >>
                 /\ c = ncalls => nextStep = 0

C7_Witness ==
  /\ \E k \in 1 .. Len(trace) : FailsAt(k, "afterEachStep", 0) /\ trace[k].call = 1
  /\ ncalls = 2
  /\ Len(RunStepIdxs(Events(2))) >= 1
  /\ hooks = AllHooks

\* The bound a run(upTo) call works up to: len(steps) when upTo is omitted
\* or larger than len(steps).
Target(a) == IF a = << >> THEN Len(steps) ELSE Min(a[1], Len(steps))

\* C8: a run(upTo) call that returns normally returns true iff the cursor
\* equals len(steps) when it returns and false iff the cursor is below
\* len(steps); the cursor is then the larger of its value at entry and
\* min(upTo, len(steps)), an omitted upTo counting as len(steps).
C8_ReturnValueIsCompletion ==
  \A c \in CallIds :
    (c = ncalls /\ pc[c] = "done" /\ result[c] # "rejected") =>
      /\ result[c] = "true" <=> nextStep = Len(steps)
      /\ result[c] = "false" <=> nextStep < Len(steps)
      /\ nextStep = Max(startAt[c], Target(upTo[c]))

C8_Witness ==
  /\ ncalls = 2
  /\ pc[2] = "done"
  /\ result[1] = "false"
  /\ upTo[1] = <<1>>
  /\ result[2] = "true"
  /\ upTo[2] = <<Len(steps) + 1>>
  /\ Len(steps) = 2

\* C9: in every reachable state 0 <= nextStep <= len(steps), and no step of
\* the Runner decreases nextStep (it is never reset to 0).
C9_CursorBoundedMonotonic ==
  /\ [](nextStep >= 0 /\ nextStep <= Len(steps))
  /\ [][nextStep' >= nextStep]_vars

C9_Witness ==
  /\ ncalls = 2
  /\ upTo[1] = <<-1>>
  /\ result[1] = "false"
  /\ upTo[2] = <<Len(steps) + 1>>
  /\ pc[2] = "done"
  /\ Len(steps) = 2
  /\ nextStep = 2

\* C10: run(upTo) with upTo at or below the cursor on a Runner that is not
\* complete invokes no backend operation at all, leaves the cursor unchanged
\* and returns false, also for upTo = 0 on a fresh Runner.
C10_RunUpToCursorIsNoOp ==
  \A c \in CallIds :
    (/\ c \in 1 .. ncalls
     /\ upTo[c] # << >>
     /\ upTo[c][1] <= startAt[c]
     /\ startAt[c] < Len(steps))
    => /\ Events(c) = << >>
       /\ pc[c] = "done" => result[c] = "false"
       /\ c = ncalls => nextStep = startAt[c]

\* ====================================================================
\* createRunner and importSteps (src/src/Runner.ts:72-145)
\* ====================================================================
MaxFlowLen == 3

\* The files an import marker may name.
Targets == {"a.json", "b.json"}

\* interface ImportSteps { type: 'import'; from: 'file' | 'url'; target }
ImportMarker(from, target) == [type |-> "import", from |-> from, target |-> target]

Markers == {ImportMarker("file", "a.json"), ImportMarker("file", "b.json"),
            ImportMarker("url", "a.json")}

\* Ordinary steps of the given flow, and of the imported files.
FlowSteps == {[type |-> "navigate"], [type |-> "click"]}
FileSteps == <<[type |-> "change"], [type |-> "keyDown"]>>

\* step.type != 'import' (line 93), step.type === 'import' (line 141)
IsImport(step) == step.type = "import"

\* What `readFile(target, 'utf-8')` followed by `JSON.parse` gives: the read
\* rejects, the text is no JSON, the value has no `steps` member, `steps`
\* cannot be spread, or `steps` is an array.
FileContents ==
  {[kind |-> k, steps |-> << >>] :
      k \in {"unreadable", "unparsable", "noSteps", "stepsNotIterable", "stepsArray"}}
  \cup {[kind |-> "stepsArray", steps |-> FileSteps],
        [kind |-> "stepsArray", steps |-> <<FileSteps[1], ImportMarker("file", "b.json")>>],
        [kind |-> "stepsArray", steps |-> <<ImportMarker("url", "a.json")>>]}

\* The flows handed to createRunner: title, optional timeout and
\* selectorAttribute (sequences of length 0 or 1), steps that may hold import
\* markers.
RawFlows ==
  {[title |-> m[1], timeout |-> m[2], selectorAttribute |-> m[3], steps |-> ss] :
      m \in {<<"login", << >>, << >> >>, <<"checkout", <<5000>>, <<"data-testid">> >>},
      ss \in UNION {[1 .. n -> FlowSteps \cup Markers] : n \in 0 .. MaxFlowLen}}

\* flow.steps.some((step) => step.type === 'import')  (line 141)
HasImport(flow) == \E k \in 1 .. Len(flow.steps) : IsImport(flow.steps[k])

\* The error thrown by the catch block (line 111): its message names the
\* target and ends with the text of the error caught.
ReadError(target, cause) ==
  [message |-> "Error reading file", target |-> target, cause |-> cause]

\* The error thrown by the default branch (line 118).
UnsupportedError(from) ==
  [message |-> "Adding steps is not supported", from |-> from]

\* The error raised inside the try block of lines 102-110 for a file.
CauseOf(target, content) ==
  CASE content.kind = "unreadable" -> "ENOENT"
    [] content.kind = "unparsable" -> "SyntaxError"
    [] content.kind = "noSteps" -> "No steps found in target: " \o target
    [] OTHER -> "TypeError"

\* ss with every import marker replaced, in place, by the steps of the file
\* it names (one level, left to right).
RECURSIVE Expansion(_)
Expansion(ss) ==
  IF ss = << >> THEN << >>
  ELSE (IF IsImport(Head(ss)) THEN files[Head(ss).target].steps ELSE <<Head(ss)>>)
         \o Expansion(Tail(ss))

\* createRunner is called with a flow, against some file system.
ImportInit ==
  /\ givenFlow \in RawFlows
  /\ files \in [Targets -> FileContents]
  /\ rpc = "idle"
  /\ rIdx = 0
  /\ rSteps = << >>
  /\ reads = << >>
  /\ rErr = << >>
  /\ runnerFlow = << >>
  /\ imported = FALSE

\* The element of givenFlow.steps the for-of loop is at (line 92).
Current == givenFlow.steps[rIdx + 1]

\* Mutant of CreateRunner: importSteps is called whatever the steps are.
CreateRunner_AlwaysImports ==
  /\ rpc = "idle"
  /\ rpc' = "scan"
  /\ imported' = TRUE
  /\ UNCHANGED <<givenFlow, files, rIdx, rSteps, reads, rErr, runnerFlow>>

\* createRunner, lines 141-144: importSteps is called when some step is an
\* import marker; otherwise the Runner is constructed on the flow as given.
CreateRunner ==
  /\ rpc = "idle"
  /\ IF HasImport(givenFlow)
     THEN /\ rpc' = "scan"
          /\ imported' = TRUE
          /\ UNCHANGED runnerFlow
     ELSE /\ rpc' = "constructed"
          /\ runnerFlow' = <<givenFlow>>
          /\ UNCHANGED imported
  /\ UNCHANGED <<givenFlow, files, rIdx, rSteps, reads, rErr>>

\* Mutant of PushStep: unshift for push.
PushStep_Unshift ==
  /\ rpc = "scan"
  /\ rIdx < Len(givenFlow.steps)
  /\ ~IsImport(Current)
  /\ rSteps' = <<Current>> \o rSteps
  /\ rIdx' = rIdx + 1
  /\ UNCHANGED <<givenFlow, files, rpc, reads, rErr, runnerFlow, imported>>

\* Lines 93-97: a step that is no import marker is pushed.
PushStep ==
  /\ rpc = "scan"
  /\ rIdx < Len(givenFlow.steps)
  /\ ~IsImport(Current)
  /\ rSteps' = Append(rSteps, Current)
  /\ rIdx' = rIdx + 1
  /\ UNCHANGED <<givenFlow, files, rpc, reads, rErr, runnerFlow, imported>>

\* Lines 99-103: an import marker from 'file': readFile(target) is awaited.
ReadImport ==
  /\ rpc = "scan"
  /\ rIdx < Len(givenFlow.steps)
  /\ IsImport(Current)
  /\ Current.from = "file"
  /\ reads' = Append(reads, Current.target)
  /\ rpc' = "awaitRead"
  /\ UNCHANGED <<givenFlow, files, rIdx, rSteps, rErr, runnerFlow, imported>>

\* Mutant of UnsupportedSource: the marker is skipped.
UnsupportedSource_Skip ==
  /\ rpc = "scan"
  /\ rIdx < Len(givenFlow.steps)
  /\ IsImport(Current)
  /\ Current.from # "file"
  /\ rIdx' = rIdx + 1
  /\ UNCHANGED <<givenFlow, files, rpc, rSteps, reads, rErr, runnerFlow, imported>>

\* Lines 117-118: an import marker from anything else throws.
UnsupportedSource ==
  /\ rpc = "scan"
  /\ rIdx < Len(givenFlow.steps)
  /\ IsImport(Current)
  /\ Current.from # "file"
  /\ rpc' = "rejected"
  /\ rErr' = <<UnsupportedError(Current.from)>>
  /\ UNCHANGED <<givenFlow, files, rIdx, rSteps, reads, runnerFlow, imported>>

\* Mutant of ReadSettles: an error on the way is swallowed and the loop
\* goes on with the next element.
ReadSettles_Swallow ==
  /\ rpc = "awaitRead"
  /\ rSteps' = rSteps \o files[Current.target].steps
  /\ rIdx' = rIdx + 1
  /\ rpc' = "scan"
  /\ UNCHANGED <<givenFlow, files, reads, rErr, runnerFlow, imported>>

\* Mutant of ReadSettles: the steps read are scanned for import markers
\* themselves, and the markers found are replaced by their files' steps.
ReadSettles_Recursive ==
  /\ rpc = "awaitRead"
  /\ LET content == files[Current.target]
     IN IF content.kind = "stepsArray"
        THEN /\ rSteps' = rSteps \o Expansion(content.steps)
             /\ rIdx' = rIdx + 1
             /\ rpc' = "scan"
             /\ UNCHANGED rErr
        ELSE /\ rpc' = "rejected"
             /\ rErr' = <<ReadError(Current.target, CauseOf(Current.target, content))>>
             /\ UNCHANGED <<rIdx, rSteps>>
  /\ UNCHANGED <<givenFlow, files, reads, runnerFlow, imported>>

\* Lines 103-114: the read settles; the text is parsed, `steps` is looked
\* for and spread into the local array, and any error on the way is thrown
\* again by the catch block as a read error.
ReadSettles ==
  /\ rpc = "awaitRead"
  /\ LET content == files[Current.target]
     IN IF content.kind = "stepsArray"
        THEN /\ rSteps' = rSteps \o content.steps
             /\ rIdx' = rIdx + 1
             /\ rpc' = "scan"
             /\ UNCHANGED rErr
        ELSE /\ rpc' = "rejected"
             /\ rErr' = <<ReadError(Current.target, CauseOf(Current.target, content))>>
             /\ UNCHANGED <<rIdx, rSteps>>
  /\ UNCHANGED <<givenFlow, files, reads, runnerFlow, imported>>

\* Mutant of ImportReturn: the given flow is updated in place and returned.
ImportReturn_InPlace ==
  /\ rpc = "scan"
  /\ rIdx = Len(givenFlow.steps)
  /\ givenFlow' = [givenFlow EXCEPT !.steps = rSteps]
  /\ runnerFlow' = <<givenFlow'>>
  /\ rpc' = "constructed"
  /\ UNCHANGED <<files, rIdx, rSteps, reads, rErr, imported>>

\* Lines 122-125 and 142-144: importSteps returns {...givenFlow, steps} and
\* the Runner is constructed on it.
ImportReturn ==
  /\ rpc = "scan"
  /\ rIdx = Len(givenFlow.steps)
  /\ runnerFlow' = <<[givenFlow EXCEPT !.steps = rSteps]>>
  /\ rpc' = "constructed"
  /\ UNCHANGED <<givenFlow, files, rIdx, rSteps, reads, rErr, imported>>

\* The Runner variables while createRunner is at work.
RunnerUnborn ==
  /\ steps = << >>
  /\ hooks = {}
  /\ nextStep = 0
  /\ ncalls = 0
  /\ pc = [c \in CallIds |-> "idle"]
  /\ upTo = [c \in CallIds |-> << >>]
  /\ startAt = [c \in CallIds |-> 0]
  /\ result = [c \in CallIds |-> "pending"]
  /\ err = [c \in CallIds |-> NoError]
  /\ trace = << >>

OtherThanResolver == <<runnerVars, abortVars, ref, cliVars, overlapped>>

NextImport ==
  \/ CreateRunner /\ UNCHANGED OtherThanResolver
  \/ PushStep /\ UNCHANGED OtherThanResolver
  \/ ReadImport /\ UNCHANGED OtherThanResolver
  \/ UnsupportedSource /\ UNCHANGED OtherThanResolver
  \/ ReadSettles /\ UNCHANGED OtherThanResolver
  \/ ImportReturn /\ UNCHANGED OtherThanResolver

InitImport == ImportInit /\ RunnerUnborn /\ AbortIdle /\ CliIdle /\ ref = NewRunner /\ overlapped = FALSE

SpecImport == InitImport /\ [][NextImport]_vars

\* ------------------------------------------------ claims on createRunner
\* createRunner has settled.
Settled == rpc \in {"constructed", "rejected"}

\* Every import marker of the given flow is from 'file' and names a file
\* that reads and parses to a value with a `steps` array.
AllImportsGood ==
  \A k \in 1 .. Len(givenFlow.steps) :
    IsImport(givenFlow.steps[k]) =>
      /\ givenFlow.steps[k].from = "file"
      /\ files[givenFlow.steps[k].target].kind = "stepsArray"

\* The import markers among ss, in order.
MarkersOf(ss) == SelectSeq(ss, IsImport)

\* The first n elements of the given flow.
Scanned(n) == SubSeq(givenFlow.steps, 1, n)

\* importSteps stopped at, or waits for, the import marker it is at.
AtFileMarker ==
  /\ rpc \in {"awaitRead", "rejected"}
  /\ IsImport(Current)
  /\ Current.from = "file"

\* C11: when every import marker is from 'file' with a readable, parsable
\* target holding a steps array, resolution succeeds with the input scanned
\* left to right, every other step kept in place and every marker replaced
\* by the elements of its target's steps in order (flattened):
\* [A, import(f), B] with f = {steps: [X, Y]} gives [A, X, Y, B].
C11_ImportsExpandedInPlace ==
  (AllImportsGood /\ Settled) =>
    /\ rpc = "constructed"
    /\ runnerFlow[1].steps = Expansion(givenFlow.steps)

C11_Witness ==
  /\ rpc = "constructed"
  /\ givenFlow.steps = <<[type |-> "navigate"], ImportMarker("file", "a.json"), [type |-> "click"]>>
  /\ files["a.json"].steps = FileSteps
  /\ runnerFlow[1].steps = <<[type |-> "navigate"], FileSteps[1], FileSteps[2], [type |-> "click"]>>

\* C12: a 'file' marker whose target cannot be read or parsed, or has no
\* steps to take, makes resolution fail with the read error naming the
\* target and carrying the cause; no flow is returned, nothing after the
\* marker is processed, and such a marker is never passed over.
C12_BadTargetFailsResolution ==
  /\ \A k \in 1 .. rIdx :
       (IsImport(givenFlow.steps[k]) /\ givenFlow.steps[k].from = "file")
       => files[givenFlow.steps[k].target].kind = "stepsArray"
  /\ (rpc = "rejected" /\ AtFileMarker) =>
       /\ files[Current.target].kind # "stepsArray"
       /\ rErr = <<ReadError(Current.target, CauseOf(Current.target, files[Current.target]))>>
       /\ rErr[1].target = Current.target
       /\ runnerFlow = << >>
       /\ rSteps = Expansion(Scanned(rIdx))
       /\ Len(reads) = Len(MarkersOf(Scanned(rIdx + 1)))
       /\ ~ENABLED NextImport

C12_Witness ==
  /\ rpc = "rejected"
  /\ AtFileMarker
  /\ rErr[1].cause = "No steps found in target: b.json"
  /\ rIdx = 1
  /\ Len(givenFlow.steps) = 3
  /\ IsImport(givenFlow.steps[3])

\* C13: an import marker whose source is not 'file' makes resolution fail
\* with the unsupported-source error, which is not the read error; the
\* marker is never passed over or left in the output, and no flow is returned.
C13_UnsupportedSourceFails ==
  /\ \A k \in 1 .. rIdx : IsImport(givenFlow.steps[k]) => givenFlow.steps[k].from = "file"
  /\ (rpc = "rejected" /\ ~AtFileMarker) =>
       /\ IsImport(Current)
       /\ Current.from # "file"
       /\ rErr = <<UnsupportedError(Current.from)>>
       /\ rErr[1].message # ReadError(Current.target, "").message
       /\ runnerFlow = << >>
       /\ ~ENABLED NextImport
  /\ rpc = "constructed" =>
       \A k \in 1 .. Len(givenFlow.steps) :
         IsImport(givenFlow.steps[k]) => givenFlow.steps[k].from = "file"

C13_Witness ==
  /\ rpc = "rejected"
  /\ rErr = <<UnsupportedError("url")>>
  /\ rIdx = 2
  /\ reads = <<"a.json">>

\* C14: after resolution succeeds no element of the resolved flow's steps is
\* an import marker, whatever the imported files hold, so the Runner is never
\* bound to a flow with a marker to hand to runStep.
C14_NoMarkerAfterResolution ==
  rpc = "constructed" =>
    \A k \in 1 .. Len(runnerFlow[1].steps) : ~IsImport(runnerFlow[1].steps[k])

\* C15: resolution never changes the flow it was given, whether it returns
\* or fails, and the flow it returns has the title, timeout and
\* selectorAttribute of the input with the expanded steps.
C15_InputFlowNotMutated ==
  /\ [][givenFlow' = givenFlow]_vars
  /\ [](rpc = "constructed" =>
          /\ runnerFlow[1].title = givenFlow.title
          /\ runnerFlow[1].timeout = givenFlow.timeout
          /\ runnerFlow[1].selectorAttribute = givenFlow.selectorAttribute
          /\ imported => runnerFlow[1].steps = rSteps)

C15_Witness ==
  /\ rpc = "constructed"
  /\ imported
  /\ givenFlow.timeout = <<5000>>
  /\ runnerFlow[1].steps # givenFlow.steps
  /\ Len(givenFlow.steps) = 2

\* C16: createRunner calls importSteps iff the given steps hold an import
\* marker; then the Runner is bound to the flow resolution returns, and
\* there is no Runner when resolution fails; otherwise the Runner is bound
\* to the flow as given and no file is read.
C16_ResolvesIffMarkerPresent ==
  /\ imported <=> (rpc # "idle" /\ HasImport(givenFlow))
  /\ ~HasImport(givenFlow) =>
       /\ reads = << >>
       /\ rpc \in {"idle", "constructed"}
       /\ rpc = "constructed" => runnerFlow = <<givenFlow>>
  /\ (HasImport(givenFlow) /\ rpc = "constructed") =>
       /\ rIdx = Len(givenFlow.steps)
       /\ runnerFlow = <<[givenFlow EXCEPT !.steps = rSteps]>>
  /\ rpc = "constructed" <=> runnerFlow # << >>
  /\ rpc = "rejected" <=> rErr # << >>

C16_Witness ==
  /\ rpc = "constructed"
  /\ ~imported
  /\ Len(givenFlow.steps) = 2
  /\ runnerFlow = <<givenFlow>>

\* The import markers held by the steps arrays of the files ts, in order.
RECURSIVE NestedMarkers(_)
NestedMarkers(ts) ==
  IF ts = << >> THEN << >>
  ELSE MarkersOf(files[Head(ts)].steps) \o NestedMarkers(Tail(ts))

\* C17: resolution is single-pass: what an imported file's steps array holds
\* is appended as it is, so an import marker inside an imported file is
\* neither expanded nor rejected (whatever its source) and the only files
\* read are those named by the markers of the given flow, one read each.
C17_SinglePassNonRecursive ==
  LET visited == IF AtFileMarker THEN rIdx + 1 ELSE rIdx
      top == SelectSeq(Scanned(visited), LAMBDA st : IsImport(st) /\ st.from = "file")
  IN /\ reads = [k \in 1 .. Len(top) |-> top[k].target]
     /\ rpc = "rejected" =>
          \/ rErr = <<UnsupportedError(Current.from)>> /\ IsImport(Current)
          \/ rErr[1].target = Current.target /\ AtFileMarker
     /\ MarkersOf(rSteps) =
          NestedMarkers(SubSeq(reads, 1, IF AtFileMarker THEN Len(reads) - 1 ELSE Len(reads)))
     /\ rpc = "constructed" /\ imported => MarkersOf(runnerFlow[1].steps) = MarkersOf(rSteps)

C17_Witness ==
  /\ rpc = "constructed"
  /\ reads = <<"a.json">>
  /\ runnerFlow[1].steps = <<ImportMarker("url", "a.json")>>

\* ====================================================================
\* Omitted hooks against hooks that do nothing
\* ====================================================================
\* Runner.run once more, on the Runner record `ref` whose extension
\* implements all four hooks: those the extension under test omits are there
\* functions that do nothing and never fail.  Both Runners get the same
\* run(stepIdx) calls and the same outcomes of the backend calls.

\* ext.hook(...) of the full extension: always a call.
RefInvoke(tr, c, op, i) ==
  Append(tr, [call |-> c, op |-> op, idx |-> i, arg |-> ArgOf(op, i), ev |-> "call"])

RefSettle(tr, ok) ==
  Append(tr, [tr[Len(tr)] EXCEPT !.ev = IF ok THEN "ok" ELSE "fail"])

\* Lines 45-68 from the loop head on, with cursor ns and log tr.
RefLoopHead(r, c, ns, stepIdx, tr) ==
  IF LoopCond(ns, stepIdx)
  THEN [r EXCEPT !.nextStep = ns, !.pc[c] = "awaitBeforeEach",
                 !.trace = RefInvoke(tr, c, "beforeEachStep", ns)]
  ELSE IF IsComplete(ns)
  THEN [r EXCEPT !.nextStep = ns, !.pc[c] = "awaitAfterAll",
                 !.trace = RefInvoke(tr, c, "afterAllSteps", -1)]
  ELSE [r EXCEPT !.nextStep = ns, !.pc[c] = "done", !.result[c] = "false", !.trace = tr]

\* A rejected await propagates out of run.
RefReject(r, c, tr) ==
  [r EXCEPT !.pc[c] = "done", !.result[c] = "rejected",
            !.err[c] = [op |-> tr[Len(tr)].op, idx |-> tr[Len(tr)].idx],
            !.trace = tr]

\* run(stepIdx?) is entered (lines 38-44).
RefRun(r, c, a) ==
  IF IsFirst(r.nextStep)
  THEN [r EXCEPT !.pc[c] = "awaitBeforeAll",
                 !.trace = RefInvoke(r.trace, c, "beforeAllSteps", -1)]
  ELSE RefLoopHead(r, c, r.nextStep, StepIdx(a), r.trace)

\* The await run() is suspended at settles (lines 43-65).
RefSettles(r, c, ok) ==
  IF r.pc[c] \in {"idle", "done"} THEN r
  ELSE IF ~ok THEN RefReject(r, c, RefSettle(r.trace, FALSE))
  ELSE CASE r.pc[c] = "awaitBeforeAll" ->
              RefLoopHead(r, c, r.nextStep, StepIdx(upTo[c]), RefSettle(r.trace, TRUE))
         [] r.pc[c] = "awaitBeforeEach" ->
              [r EXCEPT !.pc[c] = "awaitRunStep",
                        !.trace = RefInvoke(RefSettle(r.trace, TRUE), c, "runStep", r.nextStep)]
         [] r.pc[c] = "awaitRunStep" ->
              [r EXCEPT !.pc[c] = "awaitAfterEach",
                        !.trace = RefInvoke(RefSettle(r.trace, TRUE), c, "afterEachStep", r.nextStep)]
         [] r.pc[c] = "awaitAfterEach" ->
              RefLoopHead(r, c, Advance(r.nextStep), StepIdx(upTo[c]), RefSettle(r.trace, TRUE))
         [] r.pc[c] = "awaitAfterAll" ->
              [r EXCEPT !.pc[c] = "done", !.result[c] = "true",
                        !.trace = RefSettle(r.trace, TRUE)]

OtherThanRunners == <<resolverVars, abortVars, cliVars, overlapped>>

NextHooks ==
  \/ \E c \in CallIds, a \in StepIdxArgs :
       Run(c, a) /\ ref' = RefRun(ref, c, a) /\ UNCHANGED OtherThanRunners
  \/ \E c \in CallIds, ok \in BOOLEAN :
       BeforeAllSettles(c, ok) /\ ref' = RefSettles(ref, c, ok) /\ UNCHANGED OtherThanRunners
  \/ \E c \in CallIds, ok \in BOOLEAN :
       BeforeEachSettles(c, ok) /\ ref' = RefSettles(ref, c, ok) /\ UNCHANGED OtherThanRunners
  \/ \E c \in CallIds, ok \in BOOLEAN :
       RunStepSettles(c, ok) /\ ref' = RefSettles(ref, c, ok) /\ UNCHANGED OtherThanRunners
  \/ \E c \in CallIds, ok \in BOOLEAN :
       AfterEachSettles(c, ok) /\ ref' = RefSettles(ref, c, ok) /\ UNCHANGED OtherThanRunners
  \/ \E c \in CallIds, ok \in BOOLEAN :
       AfterAllSettles(c, ok) /\ ref' = RefSettles(ref, c, ok) /\ UNCHANGED OtherThanRunners

SpecHooks == Init /\ [][NextHooks]_vars

\* C18: whatever hooks the extension omits, every sequence of run(upTo)
\* calls gives the cursor, the state and result of every call, the error of
\* a failed call and the log of runStep and of the hooks that are there that
\* it gives with the omitted hooks replaced by hooks that do nothing and
\* never fail.
C18_OmittedHookIsNoOp ==
  /\ ref.nextStep = nextStep
  /\ ref.pc = pc
  /\ ref.result = result
  /\ ref.err = err
  /\ SelectSeq(ref.trace, LAMBDA e : e.op = "runStep" \/ e.op \in hooks) = trace

C18_Witness ==
  /\ hooks = {"afterEachStep"}
  /\ Len(steps) = 2
  /\ ncalls = 2
  /\ result[1] = "false"
  /\ result[2] = "true"
  /\ Len(ref.trace) > Len(trace)

\* ====================================================================
\* The Runner with an abort flag (src/unnamed/part_000:22-60)
\* ====================================================================
\* run() takes no argument and keeps its position in a local variable;
\* abort() may be called by anyone at any time run() is not executing, that
\* is between two run() calls or while run() is suspended at an await.

\* The number of abort() calls that change the flag.
MaxAborts == 2

\* abort(): this.#aborted = true.  A call that finds the flag set changes
\* nothing and is left out.
Abort ==
  /\ ~aborted
  /\ Len(abortLog) < MaxAborts
  /\ aborted' = TRUE
  /\ abortLog' = Append(abortLog,
       [call |-> IF Quiescent THEN 0 ELSE ncalls, at |-> IF Quiescent THEN "idle" ELSE pc[ncalls],
        idx |-> nextStepIndex])
  /\ UNCHANGED <<runnerVars, nextStepIndex>>

\* Mutant of AbortLoopCond: the flag is not tested.
AbortLoopCond_IgnoresAbort(idx) == idx < Length

\* while (nextStepIndex < this.#flow.steps.length && !this.#aborted)
AbortLoopCond(idx) == idx < Length /\ ~aborted

\* return nextStepIndex >= this.#flow.steps.length
AbortResult(idx) == IF idx >= Length THEN "true" ELSE "false"

\* Lines 48-56 from the loop head on, with local index idx and log tr:
\* the next iteration starts, or afterAllSteps is invoked.
AbortLoopHead(c, idx, tr) ==
  IF AbortLoopCond(idx)
  THEN /\ pc' = [pc EXCEPT ![c] = "awaitBeforeEach"]
       /\ trace' = Invoke(tr, c, "beforeEachStep", idx)
  ELSE /\ pc' = [pc EXCEPT ![c] = "awaitAfterAll"]
       /\ trace' = Invoke(tr, c, "afterAllSteps", -1)

\* Mutant of AbortRun: the flag is not cleared.
AbortRun_KeepsFlag(c) ==
  /\ c = ncalls + 1
  /\ Quiescent
  /\ ncalls' = c
  /\ pc' = [pc EXCEPT ![c] = "awaitBeforeAll"]
  /\ trace' = Invoke(trace, c, "beforeAllSteps", -1)
  /\ UNCHANGED <<steps, hooks, nextStep, upTo, startAt, result, err, abortVars>>

\* run() is entered (lines 43-45): the flag is cleared and beforeAllSteps
\* is invoked.
AbortRun(c) ==
  /\ c = ncalls + 1
  /\ Quiescent
  /\ ncalls' = c
  /\ aborted' = FALSE
  /\ pc' = [pc EXCEPT ![c] = "awaitBeforeAll"]
  /\ trace' = Invoke(trace, c, "beforeAllSteps", -1)
  /\ UNCHANGED <<steps, hooks, nextStep, upTo, startAt, result, err, nextStepIndex, abortLog>>

\* Mutant of AbortBeforeAllSettles: the index is kept from the run before.
AbortBeforeAllSettles_Resumes(c, ok) ==
  /\ pc[c] = "awaitBeforeAll"
  /\ ok \/ Implements("beforeAllSteps")
  /\ IF ok
     THEN /\ AbortLoopHead(c, nextStepIndex, Settle(trace, c, "beforeAllSteps", TRUE))
          /\ UNCHANGED <<result, err>>
     ELSE Reject(c, Settle(trace, c, "beforeAllSteps", FALSE))
  /\ UNCHANGED <<steps, hooks, nextStep, ncalls, upTo, startAt, aborted, abortLog, nextStepIndex>>

\* `await beforeAllSteps?.(flow)` settles (line 45); `let nextStepIndex = 0`
\* (line 47) and the loop is entered.
AbortBeforeAllSettles(c, ok) ==
  /\ pc[c] = "awaitBeforeAll"
  /\ ok \/ Implements("beforeAllSteps")
  /\ IF ok
     THEN /\ nextStepIndex' = 0
          /\ AbortLoopHead(c, 0, Settle(trace, c, "beforeAllSteps", TRUE))
          /\ UNCHANGED <<result, err>>
     ELSE /\ Reject(c, Settle(trace, c, "beforeAllSteps", FALSE))
          /\ UNCHANGED nextStepIndex
  /\ UNCHANGED <<steps, hooks, nextStep, ncalls, upTo, startAt, aborted, abortLog>>

\* `await beforeEachStep?.(nextStep, flow)` settles (line 50); runStep is
\* invoked (line 51).
AbortBeforeEachSettles(c, ok) ==
  /\ pc[c] = "awaitBeforeEach"
  /\ ok \/ Implements("beforeEachStep")
  /\ IF ok
     THEN /\ pc' = [pc EXCEPT ![c] = "awaitRunStep"]
          /\ trace' = Invoke(Settle(trace, c, "beforeEachStep", TRUE), c, "runStep", nextStepIndex)
          /\ UNCHANGED <<result, err>>
     ELSE Reject(c, Settle(trace, c, "beforeEachStep", FALSE))
  /\ UNCHANGED <<steps, hooks, nextStep, ncalls, upTo, startAt, abortVars>>

\* `await runStep(nextStep, flow)` settles (line 51); afterEachStep is
\* invoked (line 52).
AbortRunStepSettles(c, ok) ==
  /\ pc[c] = "awaitRunStep"
  /\ IF ok
     THEN /\ pc' = [pc EXCEPT ![c] = "awaitAfterEach"]
          /\ trace' = Invoke(Settle(trace, c, "runStep", TRUE), c, "afterEachStep", nextStepIndex)
          /\ UNCHANGED <<result, err>>
     ELSE Reject(c, Settle(trace, c, "runStep", FALSE))
  /\ UNCHANGED <<steps, hooks, nextStep, ncalls, upTo, startAt, abortVars>>

\* `await afterEachStep?.(nextStep, flow)` settles (line 52);
\* nextStepIndex++ (line 53) and the loop condition is tested again.
AbortAfterEachSettles(c, ok) ==
  /\ pc[c] = "awaitAfterEach"
  /\ ok \/ Implements("afterEachStep")
  /\ IF ok
     THEN /\ nextStepIndex' = nextStepIndex + 1
          /\ AbortLoopHead(c, nextStepIndex + 1, Settle(trace, c, "afterEachStep", TRUE))
          /\ UNCHANGED <<result, err>>
     ELSE /\ Reject(c, Settle(trace, c, "afterEachStep", FALSE))
          /\ UNCHANGED nextStepIndex
  /\ UNCHANGED <<steps, hooks, nextStep, ncalls, upTo, startAt, aborted, abortLog>>

\* `await afterAllSteps?.(flow)` settles (line 56); run returns whether the
\* index reached the end of the flow (line 58).
AbortAfterAllSettles(c, ok) ==
  /\ pc[c] = "awaitAfterAll"
  /\ ok \/ Implements("afterAllSteps")
  /\ IF ok
     THEN /\ pc' = [pc EXCEPT ![c] = "done"]
          /\ result' = [result EXCEPT ![c] = AbortResult(nextStepIndex)]
          /\ trace' = Settle(trace, c, "afterAllSteps", TRUE)
          /\ UNCHANGED err
     ELSE Reject(c, Settle(trace, c, "afterAllSteps", FALSE))
  /\ UNCHANGED <<steps, hooks, nextStep, ncalls, upTo, startAt, abortVars>>

OtherThanAbortRunner == <<resolverVars, ref, cliVars, overlapped>>

NextAbort ==
  \/ Abort /\ UNCHANGED OtherThanAbortRunner
  \/ \E c \in CallIds : AbortRun(c) /\ UNCHANGED OtherThanAbortRunner
  \/ \E c \in CallIds, ok \in BOOLEAN : AbortBeforeAllSettles(c, ok) /\ UNCHANGED OtherThanAbortRunner
  \/ \E c \in CallIds, ok \in BOOLEAN : AbortBeforeEachSettles(c, ok) /\ UNCHANGED OtherThanAbortRunner
  \/ \E c \in CallIds, ok \in BOOLEAN : AbortRunStepSettles(c, ok) /\ UNCHANGED OtherThanAbortRunner
  \/ \E c \in CallIds, ok \in BOOLEAN : AbortAfterEachSettles(c, ok) /\ UNCHANGED OtherThanAbortRunner
  \/ \E c \in CallIds, ok \in BOOLEAN : AbortAfterAllSettles(c, ok) /\ UNCHANGED OtherThanAbortRunner

\* The extensions the abort-flag Runner is run with: runStep alone, and
\* runStep with the four hooks.
AbortExtensions == {{}, AllHooks}

InitAbort == Init /\ hooks \in AbortExtensions

SpecAbort == InitAbort /\ [][NextAbort]_vars

\* abort() call k was made while a step of a run() was in flight: during
\* its beforeEachStep, runStep or afterEachStep.
DuringStep(k) == abortLog[k].at \in {"awaitBeforeEach", "awaitRunStep", "awaitAfterEach"}

\* No backend call of run() invocation c has failed.
NoFailureIn(c) == \A k \in 1 .. Len(trace) : trace[k].call = c => trace[k].ev # "fail"

\* C19: when abort() is called while step i is in flight, the run invokes
\* nothing on a step above i; if no backend call fails, step i is completed
\* with its afterEachStep, afterAllSteps is still invoked and run returns
\* true iff i was the last step.
C19_AbortFinishesCurrentStep ==
  \A k \in 1 .. Len(abortLog) :
    DuringStep(k) =>
      LET c == abortLog[k].call
          i == abortLog[k].idx
      IN /\ \A j \in 1 .. Len(trace) : trace[j].call = c => trace[j].idx <= i
         /\ (pc[c] = "done" /\ NoFailureIn(c)) =>
              /\ Events(c) = Completed(c, "beforeAllSteps", -1, "flow")
                               \o Iterations(c, 0, i + 1)
                               \o Completed(c, "afterAllSteps", -1, "flow")
              /\ result[c] = (IF i = Len(steps) - 1 THEN "true" ELSE "false")

C19_Witness ==
  /\ Len(abortLog) = 2
  /\ abortLog[1] = [call |-> 1, at |-> "awaitRunStep", idx |-> 0]
  /\ abortLog[2] = [call |-> 2, at |-> "awaitAfterEach", idx |-> 1]
  /\ Len(steps) = 2
  /\ hooks = AllHooks
  /\ result = <<"false", "true">>

\* C20: the Runner with the abort flag does not resume: every run(),
\* whatever became of the one before, invokes beforeAllSteps once, first of
\* all, and takes the steps from index 0 on, so the steps an aborted run
\* had run are run again.
C20_AbortRunnerRestarts ==
  \A c \in 1 .. ncalls :
    LET ev == Events(c)
        ran == Invocations(ev, "runStep")
    IN /\ Len(Invocations(ev, "beforeAllSteps")) = (IF "beforeAllSteps" \in hooks THEN 1 ELSE 0)
       /\ "beforeAllSteps" \in hooks => (ev[1].op = "beforeAllSteps" /\ ev[1].ev = "call")
       /\ \A k \in 1 .. Len(ran) : ran[k].idx = k - 1
       /\ (pc[c] = "done" /\ result[c] = "true") => Len(ran) = Len(steps)

C20_Witness ==
  /\ ncalls = 2
  /\ abortLog = << [call |-> 1, at |-> "awaitBeforeEach", idx |-> 0] >>
  /\ result = <<"false", "true">>
  /\ RunStepIdxs(Events(1)) = <<0>>
  /\ RunStepIdxs(Events(2)) = <<0, 1>>
  /\ hooks = AllHooks

\* ====================================================================
\* runFiles (src/src/CLIUtils.ts:255-325)
\* ====================================================================
MaxFiles == 2

RecordingFiles == {"a.json", "b.json"}

\* The lists of files runFiles is called with; a file may be named twice.
FileLists == UNION {[1 .. n -> RecordingFiles] : n \in 0 .. MaxFiles}

\* opts: log, and whether an extension module is named.
Options == [log : BOOLEAN, extension : {"none", "module"}]

\* What the code before the first await of the try block does with a file
\* (lines 292-296): readFileSync throws, JSON.parse throws, parse throws,
\* or the recording is there.
SyncOutcomes == {"read", "json", "schema", "ok"}

RejectedExtension == "extension module"
RejectedClose == "browser.close"
SomeFailed == "Some recordings have failed to run."

\* statusReport.update (lines 129-152) as far as statusReport.errors goes:
\* with log set, #drawTable (lines 110-126) moves every entry of errors
\* into #errorString, keeping its file and its error's stack.
Update(st) ==
  IF opts.log
  THEN [errors |-> << >>,
        errorString |-> st.errorString
          \o [k \in 1 .. Len(st.errors) |-> [file |-> st.errors[k].file, stack |-> st.errors[k].error]]]
  ELSE st

\* Mutant of Caught: the error is not pushed.
Caught_Swallow(st, i, e) == Update(st)

\* The catch block (lines 307-310) for the file at position i and error e:
\* statusReport.errors.push({ error, file }), then statusReport.update.
Caught(st, i, e) ==
  Update([st EXCEPT !.errors = Append(@, [error |-> e, file |-> fileList[i]])])

\* Something is thrown inside the try block for the file at position i,
\* whose result has the given title: the catch block, then the finally
\* block up to `await browser?.close()` (lines 307-315).
Throw(i, e, title) ==
  LET st == Caught([errors |-> statusErrors, errorString |-> errorString], i, e)
  IN /\ thrown' = Append(thrown, [at |-> i, error |-> e])
     /\ statusErrors' = st.errors
     /\ errorString' = st.errorString
     /\ results' = Append(results, [title |-> title, file |-> fileList[i], success |-> FALSE])
     /\ closes' = IF browser = 0 THEN closes ELSE Append(closes, browser)
     /\ fpc' = "awaitClose"
     /\ UNCHANGED <<browser, outcome>>

\* results.every((result) => result.success)  (line 322)
AllSucceeded(rs) == \A k \in 1 .. Len(rs) : rs[k].success

\* The for loop reaches position i (lines 279-296): past the last file
\* runFiles settles (lines 322-324); otherwise the file is read and parsed,
\* up to `await import('puppeteer')` or to the catch block.
NextFile(i, sync) ==
  /\ index' = i
  /\ IF i > Len(fileList)
     THEN /\ fpc' = "done"
          /\ outcome' = IF AllSucceeded(results) THEN "resolved" ELSE SomeFailed
          /\ UNCHANGED <<browser, results, statusErrors, errorString, thrown, closes>>
     ELSE IF sync = "ok"
     THEN /\ fpc' = "awaitPuppeteer"
          /\ statusErrors' = Update([errors |-> statusErrors, errorString |-> errorString]).errors
          /\ errorString' = Update([errors |-> statusErrors, errorString |-> errorString]).errorString
          /\ UNCHANGED <<browser, results, thrown, closes, outcome>>
     ELSE Throw(i, sync, "")

\* runFiles is called (lines 255-277).
RunFiles(sync) ==
  /\ fpc = "idle"
  /\ IF opts.extension = "none"
     THEN NextFile(1, sync)
     ELSE /\ fpc' = "awaitExtension"
          /\ UNCHANGED <<index, browser, results, statusErrors, errorString, thrown, closes, outcome>>
  /\ UNCHANGED <<fileList, opts>>

\* `await import(opts.extension)` settles (lines 267-275): a module that
\* does not load makes runFiles reject before any file.
ExtensionSettles(ok, sync) ==
  /\ fpc = "awaitExtension"
  /\ IF ok
     THEN NextFile(1, sync)
     ELSE /\ fpc' = "done"
          /\ outcome' = RejectedExtension
          /\ UNCHANGED <<index, browser, results, statusErrors, errorString, thrown, closes>>
  /\ UNCHANGED <<fileList, opts>>

\* `await import('puppeteer')` settles (line 298).
PuppeteerSettles(ok) ==
  /\ fpc = "awaitPuppeteer"
  /\ IF ok
     THEN /\ fpc' = "awaitLaunch"
          /\ UNCHANGED <<browser, results, statusErrors, errorString, thrown, closes, outcome>>
     ELSE Throw(index, "puppeteer", "title")
  /\ UNCHANGED <<fileList, opts, index>>

\* `browser = await puppeteer.launch(...)` settles (lines 299-301).
LaunchSettles(ok) ==
  /\ fpc = "awaitLaunch"
  /\ IF ok
     THEN /\ fpc' = "awaitNewPage"
          /\ browser' = index
          /\ UNCHANGED <<results, statusErrors, errorString, thrown, closes, outcome>>
     ELSE Throw(index, "launch", "title")
  /\ UNCHANGED <<fileList, opts, index>>

\* `await browser.newPage()` settles and the extension is constructed
\* (lines 302-303); createRunner is called (line 304).
NewPageSettles(r) ==
  /\ fpc = "awaitNewPage"
  /\ IF r = "ok"
     THEN /\ fpc' = "awaitCreateRunner"
          /\ UNCHANGED <<browser, results, statusErrors, errorString, thrown, closes, outcome>>
     ELSE Throw(index, r, "title")
  /\ UNCHANGED <<fileList, opts, index>>

\* `await createRunner(recording, extension)` settles (line 304): it
\* rejects when the import markers of the recording do not resolve.
CreateRunnerSettles(ok) ==
  /\ fpc = "awaitCreateRunner"
  /\ IF ok
     THEN /\ fpc' = "awaitRun"
          /\ UNCHANGED <<browser, results, statusErrors, errorString, thrown, closes, outcome>>
     ELSE Throw(index, "import", "title")
  /\ UNCHANGED <<fileList, opts, index>>

\* `await runner.run()` settles (line 305): it rejects when a step fails;
\* otherwise the file has succeeded (line 306) and the finally block runs
\* up to `await browser?.close()` (lines 311-315).
RunSettles(ok) ==
  /\ fpc = "awaitRun"
  /\ IF ok
     THEN /\ fpc' = "awaitClose"
          /\ statusErrors' = Update([errors |-> statusErrors, errorString |-> errorString]).errors
          /\ errorString' = Update([errors |-> statusErrors, errorString |-> errorString]).errorString
          /\ results' = Append(results, [title |-> "title", file |-> fileList[index], success |-> TRUE])
          /\ closes' = Append(closes, browser)
          /\ UNCHANGED <<browser, thrown, outcome>>
     ELSE Throw(index, "step", "title")
  /\ UNCHANGED <<fileList, opts, index>>

\* `await browser?.close()` settles (line 314): the loop goes on with the
\* next file; a close() that rejects is outside the try block and makes
\* runFiles reject.
CloseSettles(ok, sync) ==
  /\ fpc = "awaitClose"
  /\ ok \/ browser # 0
  /\ IF ok
     THEN NextFile(index + 1, sync)
     ELSE /\ fpc' = "done"
          /\ outcome' = RejectedClose
          /\ UNCHANGED <<index, browser, results, statusErrors, errorString, thrown, closes>>
  /\ UNCHANGED <<fileList, opts>>

OtherThanCli == <<runnerVars, resolverVars, abortVars, ref, overlapped>>

NextFiles ==
  \/ \E sync \in SyncOutcomes : RunFiles(sync) /\ UNCHANGED OtherThanCli
  \/ \E ok \in BOOLEAN, sync \in SyncOutcomes : ExtensionSettles(ok, sync) /\ UNCHANGED OtherThanCli
  \/ \E ok \in BOOLEAN : PuppeteerSettles(ok) /\ UNCHANGED OtherThanCli
  \/ \E ok \in BOOLEAN : LaunchSettles(ok) /\ UNCHANGED OtherThanCli
  \/ \E r \in {"ok", "newPage", "Extension"} : NewPageSettles(r) /\ UNCHANGED OtherThanCli
  \/ \E ok \in BOOLEAN : CreateRunnerSettles(ok) /\ UNCHANGED OtherThanCli
  \/ \E ok \in BOOLEAN : RunSettles(ok) /\ UNCHANGED OtherThanCli
  \/ \E ok \in BOOLEAN, sync \in SyncOutcomes : CloseSettles(ok, sync) /\ UNCHANGED OtherThanCli

InitFiles ==
  /\ RunnerUnborn
  /\ ResolverIdle
  /\ AbortIdle
  /\ ref = NewRunner
  /\ overlapped = FALSE
  /\ fileList \in FileLists
  /\ opts \in Options
  /\ fpc = "idle"
  /\ index = 0
  /\ browser = 0
  /\ results = << >>
  /\ statusErrors = << >>
  /\ errorString = << >>
  /\ thrown = << >>
  /\ closes = << >>
  /\ outcome = "pending"

SpecFiles == InitFiles /\ [][NextFiles]_vars

\* Every error handed to the status report so far, oldest first: those
\* already written to the error string, then those still in errors.
Recorded ==
  [k \in 1 .. Len(errorString) |-> [error |-> errorString[k].stack, file |-> errorString[k].file]]
    \o statusErrors

\* The file at position k has failed: something was thrown in its try block.
Failed(k) == \E j \in 1 .. Len(thrown) : thrown[j].at = k

\* C21: runFiles takes the files one after another in list order; unless
\* the extension module does not load or a browser.close() rejects, it
\* goes through the whole list whatever failed inside the try blocks, and
\* then rejects with 'Some recordings have failed to run.' iff a file has
\* failed; every failed file has got exactly one {error, file} entry, with
\* its name and the error that was thrown.
C21_RunFilesAttemptsEveryFile ==
  /\ Len(results) <= Len(fileList)
  /\ \A k \in 1 .. Len(results) :
       /\ results[k].file = fileList[k]
       /\ results[k].success = ~Failed(k)
  /\ \A j \in 1 .. Len(thrown) : j > 1 => thrown[j - 1].at < thrown[j].at
  /\ Recorded = [j \in 1 .. Len(thrown) |-> [error |-> thrown[j].error, file |-> fileList[thrown[j].at]]]
  /\ (fpc = "done" /\ outcome \notin {RejectedExtension, RejectedClose}) =>
       /\ Len(results) = Len(fileList)
       /\ outcome \in {"resolved", SomeFailed}
       /\ outcome = SomeFailed <=> \E k \in 1 .. Len(fileList) : Failed(k)

C21_Witness ==
  /\ fpc = "done"
  /\ fileList = <<"a.json", "b.json">>
  /\ thrown = << [at |-> 1, error |-> "step"] >>
  /\ outcome = SomeFailed
  /\ results[2].success
  /\ closes = <<1, 2>>

\* ====================================================================
\* Termination of run (src/src/Runner.ts:38-69)
\* ====================================================================
\* The Runner with a backend whose calls all return without failing.

\* The backend call run() invocation c is suspended at returns.
BackendReturns(c) ==
  \/ BeforeAllSettles(c, TRUE) /\ UNCHANGED OtherThanRunner
  \/ BeforeEachSettles(c, TRUE) /\ UNCHANGED OtherThanRunner
  \/ RunStepSettles(c, TRUE) /\ UNCHANGED OtherThanRunner
  \/ AfterEachSettles(c, TRUE) /\ UNCHANGED OtherThanRunner
  \/ AfterAllSettles(c, TRUE) /\ UNCHANGED OtherThanRunner

NextLive ==
  \/ \E c \in CallIds, a \in StepIdxArgs : Run(c, a) /\ UNCHANGED OtherThanRunner
  \/ \E c \in CallIds : BackendReturns(c)

\* Every backend call terminates: a call that is awaited returns.
SpecLive == Init /\ [][NextLive]_vars /\ \A c \in CallIds : WF_vars(BackendReturns(c))

\* The number of loop iterations run() invocation c has started.
IterationsOf(c) == Len(SelectSeq(trace, LAMBDA e : e.call = c /\ e.op = "runStep" /\ e.ev = "call"))

\* C22: with a backend whose calls all return without failing, every
\* run(upTo) call terminates, after exactly max(0, min(upTo, len(steps)) -
\* cursor) iterations, and a run() with upTo omitted leaves the cursor at
\* len(steps) and returns true.
C22_TerminationAndProgress ==
  /\ [](\A c \in CallIds :
          pc[c] = "done" =>
            /\ result[c] \in {"true", "false"}
            /\ IterationsOf(c) = Max(0, Target(upTo[c]) - startAt[c]))
  /\ \A c \in CallIds : (ncalls >= c) ~> (pc[c] = "done")
  /\ \A c \in CallIds :
       (ncalls >= c /\ upTo[c] = << >>) ~> (pc[c] = "done" /\ result[c] = "true" /\ nextStep = Len(steps))

C22_Witness ==
  /\ Len(steps) = 2
  /\ hooks = AllHooks
  /\ upTo = << <<1>>, << >> >>
  /\ pc[2] = "done"
  /\ IterationsOf(1) = 1
  /\ IterationsOf(2) = 1
  /\ result = <<"false", "true">>
  /\ nextStep = 2

\* ====================================================================
\* Overlapping run calls (src/src/Runner.ts:38-69)
\* ====================================================================
\* run() may be called at any time the thread is free: when no run() is in
\* progress, or while the ones in progress are suspended at an await.
RunAnytime(c, a) ==
  /\ Enter(c, a)
  /\ overlapped' = (overlapped \/ ~Quiescent)

OtherThanOverlap == <<resolverVars, abortVars, ref, cliVars, overlapped>>

NextOverlap ==
  \/ \E c \in CallIds, a \in StepIdxArgs :
       RunAnytime(c, a) /\ UNCHANGED <<resolverVars, abortVars, ref, cliVars>>
  \/ \E c \in CallIds, ok \in BOOLEAN : BeforeAllSettles(c, ok) /\ UNCHANGED OtherThanOverlap
  \/ \E c \in CallIds, ok \in BOOLEAN : BeforeEachSettles(c, ok) /\ UNCHANGED OtherThanOverlap
  \/ \E c \in CallIds, ok \in BOOLEAN : RunStepSettles(c, ok) /\ UNCHANGED OtherThanOverlap
  \/ \E c \in CallIds, ok \in BOOLEAN : AfterEachSettles(c, ok) /\ UNCHANGED OtherThanOverlap
  \/ \E c \in CallIds, ok \in BOOLEAN : AfterAllSettles(c, ok) /\ UNCHANGED OtherThanOverlap

\* The extensions the overlapping calls are made with: runStep alone, and
\* runStep with the four hooks.
OverlapExtensions == {{}, AllHooks}

InitOverlap == Init /\ hooks \in OverlapExtensions

SpecOverlap == InitOverlap /\ [][NextOverlap]_vars

\* runStep has been invoked twice on the same step index although no
\* backend call has failed.
RunStepTwice ==
  /\ NoFailure
  /\ \E j, k \in 1 .. Len(trace) :
       /\ j < k
       /\ trace[j].op = "runStep" /\ trace[j].ev = "call"
       /\ trace[k].op = "runStep" /\ trace[k].ev = "call"
       /\ trace[j].idx = trace[k].idx

\* The cursor is beyond the end of the flow.
CursorBeyondEnd == nextStep > Len(steps)

\* Event k is the next event of its run() invocation after event j.
NextOfCall(j, k) ==
  /\ j < k
  /\ trace[k].call = trace[j].call
  /\ \A m \in j + 1 .. k - 1 : trace[m].call # trace[j].call

\* In one iteration of some run() invocation, beforeEachStep and runStep
\* were handed different steps.
StepsDiffer ==
  \E j, k \in 1 .. Len(trace) :
    /\ trace[j].op = "beforeEachStep" /\ trace[j].ev = "ok"
    /\ NextOfCall(j, k)
    /\ trace[k].op = "runStep" /\ trace[k].ev = "call"
    /\ trace[k].arg # trace[j].arg

\* C23: runStep invoked twice on one step index without a failure, the
\* cursor beyond len(steps), and beforeEachStep and runStep of one
\* iteration handed different steps all happen, and happen only when a
\* run() was entered while another one was suspended at an await.
C23_GuaranteesNeedNoOverlap ==
  (RunStepTwice \/ CursorBeyondEnd \/ StepsDiffer) => overlapped

C23_Witness ==
  /\ overlapped
  /\ RunStepTwice
  /\ CursorBeyondEnd
  /\ StepsDiffer

\* ====================================================================
\* abort() between two runs (src/unnamed/part_000:35-48)
\* ====================================================================
\* abort() was called during run() invocation c.
AbortedDuring(c) == \E k \in 1 .. Len(abortLog) : abortLog[k].call = c

\* C24: an abort() made while no run() is in progress does not touch the
\* next run(): unless abort() is called during it, the flag is clear while
\* it runs, and if no backend call fails it runs every step and returns
\* true; a run() returns false only after an abort() made during it.
C24_IdleAbortHasNoEffect ==
  \A c \in 1 .. ncalls :
    /\ (pc[c] # "done" /\ ~AbortedDuring(c)) => ~aborted
    /\ (pc[c] = "done" /\ result[c] = "false") => AbortedDuring(c)
    /\ (pc[c] = "done" /\ ~AbortedDuring(c) /\ NoFailureIn(c)) =>
         /\ result[c] = "true"
         /\ Events(c) = Completed(c, "beforeAllSteps", -1, "flow")
                          \o Iterations(c, 0, Len(steps))
                          \o Completed(c, "afterAllSteps", -1, "flow")

C24_Witness ==
  /\ abortLog = << [call |-> 0, at |-> "idle", idx |-> 0] >>
  /\ Len(steps) = 2
  /\ hooks = AllHooks
  /\ ncalls = 1
  /\ pc[1] = "done"
  /\ result[1] = "true"
  /\ RunStepIdxs(Events(1)) = <<0, 1>>

====
